---------------------------- MODULE Spec2Model ----------------------------
(***************************************************************************)
(* The OpenAPI gateway of plexo-core (src/api/openapi/api.rs): 25 handlers *)
(* (5 resource kinds x Create/GetOne/GetMany/Update/Delete) in front of    *)
(* the engine (plexo_sdk), guarded by the PlexoAPIKeyAuthorization         *)
(* extractor.  One request is followed from its arrival, through the       *)
(* extractor, through its handler (one engine call, awaited) to its        *)
(* response.  The engine and the extractor are collaborators whose code is *)
(* outside api.rs; they are modelled from their contract.                  *)
(***************************************************************************)
EXTENDS Integers, Sequences, FiniteSets, TLC

VARIABLES
    store,      \* the engine's entities: kind -> sequence of entities, in the engine's order
    nextId,     \* the engine's next fresh entity id
    req,        \* the request being served: its route and key, where it is, what was decoded of it, what came of it
    lastGet,    \* history: the entity of the latest GetOne response, until an Update or Delete of it is answered
    deleted,    \* history: the ids of the entities a Delete response has carried
    parked,     \* a second request in service, its task suspended while the task of req runs
    count       \* history, when switched on: authenticated requests and engine calls so far

vars == <<store, nextId, req, lastGet, deleted, parked, count>>

(***************************************************************************)
(* Bounds of the model.                                                    *)
(***************************************************************************)
MaxEntities == 2    \* ids the engine hands out before its storage fails every Create
MaxRequests == 2    \* authenticated requests served while they are counted

(***************************************************************************)
(* The data the gateway moves.                                             *)
(***************************************************************************)
Kinds == {"Task", "Project", "Member", "Team", "Label"}
Ops == {"Create", "GetOne", "GetMany", "Update", "Delete"}
Owned == {"Task", "Project"}

Members == {"m1", "m2"}
Nil == "nil"                    \* Uuid::default(): the owner_id of a body that names none
Data == {"d1", "d2"}            \* the other fields of an input, as one opaque value
Filters == {"all", "d1"}        \* a QueryInput: everything, or the entities whose data is d1
Ids == 1..MaxEntities           \* the Uuid of a path
NoId == 0

Some(x) == [Some |-> x]
None == [None |-> TRUE]
IsSome(o) == "Some" \in DOMAIN o

Ok(v) == [Ok |-> v]
Err(e) == [Err |-> e]
IsOk(r) == "Ok" \in DOMAIN r

NoInput == [none |-> TRUE]

CreateInput(kind) ==
    IF kind \in Owned
    THEN [owner_id : Members \cup {Nil}, data : Data]
    ELSE [data : Data]

UpdateInput(kind) ==
    IF kind \in Owned
    THEN [owner_id : {None} \cup {Some(m) : m \in Members}, data : Data]
    ELSE [data : Data]

QueryInput(kind) == [filter : Filters]

(***************************************************************************)
(* The engine: create/get/list/update/delete per kind, each returning      *)
(* Result<_, SDKError>.  An operation yields a set of possible outcomes    *)
(* [result, store, nextId]: a storage failure is always possible.          *)
(***************************************************************************)
Outcome(result, s, n) == [result |-> result, store |-> s, nextId |-> n]

StorageFailure == Outcome(Err("Storage"), store, nextId)

Position(kind, id) ==
    LET hits == {i \in 1..Len(store[kind]) : store[kind][i].id = id}
    IN  IF hits = {} THEN 0 ELSE CHOOSE i \in hits : TRUE

Entity(kind, id, input) ==
    IF kind \in Owned
    THEN [id |-> id, owner_id |-> input.owner_id, data |-> input.data]
    ELSE [id |-> id, data |-> input.data]

EngineCreate(kind, input) ==
    {StorageFailure} \cup
    IF nextId <= MaxEntities
    THEN LET e == Entity(kind, nextId, input)
         IN  {Outcome(Ok(e), [store EXCEPT ![kind] = Append(@, e)], nextId + 1)}
    ELSE {}

EngineGetOne(kind, id) ==
    {StorageFailure} \cup
    LET p == Position(kind, id)
    IN  IF p = 0 THEN {Outcome(Err("NotFound"), store, nextId)}
        ELSE {Outcome(Ok(store[kind][p]), store, nextId)}

Matches(e, query) == query.filter = "all" \/ e.data = query.filter

EngineGetMany(kind, query) ==
    {StorageFailure} \cup
    {Outcome(Ok(SelectSeq(store[kind], LAMBDA e : Matches(e, query))), store, nextId)}

\* the engine's get_tasks takes Option<GetTasksInput>: no input selects every task
EngineGetTasks(input) ==
    EngineGetMany("Task", IF IsSome(input) THEN input.Some ELSE [filter |-> "all"])

Updated(kind, e, input) ==
    IF kind \in Owned
    THEN [e EXCEPT !.data = input.data,
                   !.owner_id = IF IsSome(input.owner_id) THEN input.owner_id.Some ELSE @]
    ELSE [e EXCEPT !.data = input.data]

EngineUpdate(kind, id, input) ==
    {StorageFailure} \cup
    LET p == Position(kind, id)
    IN  IF p = 0 THEN {Outcome(Err("NotFound"), store, nextId)}
        ELSE LET e == Updated(kind, store[kind][p], input)
             IN  {Outcome(Ok(e), [store EXCEPT ![kind][p] = e], nextId)}

Without(s, p) == SubSeq(s, 1, p - 1) \o SubSeq(s, p + 1, Len(s))

EngineDelete(kind, id) ==
    {StorageFailure} \cup
    LET p == Position(kind, id)
    IN  IF p = 0 THEN {Outcome(Err("NotFound"), store, nextId)}
        ELSE {Outcome(Ok(store[kind][p]), [store EXCEPT ![kind] = Without(@, p)], nextId)}

(***************************************************************************)
(* The credential of a request and the extractor that resolves it.         *)
(***************************************************************************)
\* the keys of two members; no key, a malformed key, a well-formed key of no member
Keys == {"key-m1", "key-m2", "", "malformed", "unknown"}

NoAuth == [none |-> TRUE]

validate(key) ==
    CASE key = "key-m1" -> Ok([member_id |-> "m1"])
      [] key = "key-m2" -> Ok([member_id |-> "m2"])
      [] OTHER -> Err("Unauthorized")

member_id(auth) == auth.member_id

(***************************************************************************)
(* The request: idle -> received -> authorized -> done -> idle.            *)
(***************************************************************************)
NoResponse == [variant |-> "None"]
Unauthorized == [variant |-> "Unauthorized"]

Idle ==
    [pc |-> "idle", kind |-> "Task", op |-> "Create", key |-> "", auth |-> NoAuth,
     id |-> NoId, input |-> NoInput, calls |-> <<>>, response |-> NoResponse]

Counting(on) == [on |-> on, requests |-> 0, engineCalls |-> 0]

\* one request at a time, not counted
Init ==
    /\ store = [k \in Kinds |-> <<>>]
    /\ nextId = 1
    /\ req = Idle
    /\ lastGet = None
    /\ deleted = {}
    /\ parked = Idle
    /\ count = Counting(FALSE)

\* requests that are counted no longer arrive once MaxRequests of them are in
Admitted ==
    count.on => count.requests + (IF parked.pc = "received" THEN 1 ELSE 0) < MaxRequests

\* a request arrives at one of the 25 routes, with some API key or none
Receive ==
    /\ req.pc = "idle"
    /\ Admitted
    /\ \E kind \in Kinds, op \in Ops, key \in Keys :
          req' = [Idle EXCEPT !.pc = "received", !.kind = kind, !.op = op, !.key = key]
    /\ UNCHANGED <<store, nextId, lastGet, deleted, parked, count>>

\* the PlexoAPIKeyAuthorization extractor runs before the handler's body
Authenticate ==
    /\ req.pc = "received"
    /\ LET r == validate(req.key)
       IN  /\ req' = IF IsOk(r)
                     THEN [req EXCEPT !.pc = "authorized", !.auth = r.Ok]
                     ELSE [req EXCEPT !.pc = "done", !.response = Unauthorized]
           /\ count' = IF count.on /\ IsOk(r)
                       THEN [count EXCEPT !.requests = @ + 1]
                       ELSE count
    /\ UNCHANGED <<store, nextId, lastGet, deleted, parked>>

(***************************************************************************)
(* Response shaping: the one variant of each response type, and the error  *)
(* a handler returns when the engine fails.                                *)
(***************************************************************************)
CreateProjectResponse_Ok(project) == [variant |-> "Ok", status |-> 200, body |-> [entity |-> project]]
GetProjectsResponse_Ok(projects) == [variant |-> "Ok", status |-> 200, body |-> [list |-> projects]]
GetProjectResponse_Ok(project) == [variant |-> "Ok", status |-> 200, body |-> [entity |-> project]]
UpdateProjectResponse_Ok(project) == [variant |-> "Ok", status |-> 200, body |-> [entity |-> project]]
DeleteProjectResponse_Ok(project) == [variant |-> "Ok", status |-> 200, body |-> [entity |-> project]]
CreateTaskResponse_Ok(task) == [variant |-> "Ok", status |-> 200, body |-> [entity |-> task]]
GetTasksResponse_Ok(tasks) == [variant |-> "Ok", status |-> 200, body |-> [list |-> tasks]]
GetTaskResponse_Ok(task) == [variant |-> "Ok", status |-> 200, body |-> [entity |-> task]]
UpdateTaskResponse_Ok(task) == [variant |-> "Ok", status |-> 200, body |-> [entity |-> task]]
DeleteTaskResponse_Ok(task) == [variant |-> "Ok", status |-> 200, body |-> [entity |-> task]]
\* fault: #[oai(status = 201)] on CreateMemberResponse::Ok
CreateMemberResponse_Created(member) == [variant |-> "Ok", status |-> 201, body |-> [entity |-> member]]

CreateMemberResponse_Ok(member) == [variant |-> "Ok", status |-> 200, body |-> [entity |-> member]]
GetMembersResponse_Ok(members) == [variant |-> "Ok", status |-> 200, body |-> [list |-> members]]
GetMemberResponse_Ok(member) == [variant |-> "Ok", status |-> 200, body |-> [entity |-> member]]
UpdateMemberResponse_Ok(member) == [variant |-> "Ok", status |-> 200, body |-> [entity |-> member]]
DeleteMemberResponse_Ok(member) == [variant |-> "Ok", status |-> 200, body |-> [entity |-> member]]
CreateTeamResponse_Ok(team) == [variant |-> "Ok", status |-> 200, body |-> [entity |-> team]]
GetTeamsResponse_Ok(teams) == [variant |-> "Ok", status |-> 200, body |-> [list |-> teams]]
GetTeamResponse_Ok(team) == [variant |-> "Ok", status |-> 200, body |-> [entity |-> team]]
UpdateTeamResponse_Ok(team) == [variant |-> "Ok", status |-> 200, body |-> [entity |-> team]]
DeleteTeamResponse_Ok(team) == [variant |-> "Ok", status |-> 200, body |-> [entity |-> team]]
CreateLabelResponse_Ok(label) == [variant |-> "Ok", status |-> 200, body |-> [entity |-> label]]
GetLabelsResponse_Ok(labels) == [variant |-> "Ok", status |-> 200, body |-> [list |-> labels]]
GetLabelResponse_Ok(label) == [variant |-> "Ok", status |-> 200, body |-> [entity |-> label]]
UpdateLabelResponse_Ok(label) == [variant |-> "Ok", status |-> 200, body |-> [entity |-> label]]
DeleteLabelResponse_Ok(label) == [variant |-> "Ok", status |-> 200, body |-> [entity |-> label]]

PlexoAppError_SDKError(e) == [SDKError |-> e]

\* .map_err(PlexoAppError::SDKError)? : the handler returns Err(..)
Failed(e) == [variant |-> "Err", error |-> PlexoAppError_SDKError(e)]

\* .map_err(PlexoAppError::SDKError).unwrap() : the handler panics, no response is built
Panicked(e) == [variant |-> "Panic", error |-> PlexoAppError_SDKError(e)]

(***************************************************************************)
(* The handlers.  A handler runs once the extractor has produced its auth  *)
(* argument, with the Path<Uuid> and the Json<..Input> decoded from the    *)
(* request (any id, any input); it makes one engine call, awaits it and    *)
(* shapes the response.                                                    *)
(***************************************************************************)
\* the route of the #[oai(path, method)] attribute, and the handler's auth parameter
Routed(kind, op) ==
    /\ req.pc = "authorized"
    /\ req.kind = kind
    /\ req.op = op

\* self.core.engine.<op>_<kind>(..).await, as the engine saw it and answered it
Call(kind, op, id, input, result) ==
    [kind |-> kind, op |-> op, id |-> id, input |-> input, result |-> result]

\* the request is answered: what was decoded of it (id, input), the engine call
\* made for it and the response are on record, and the engine is as the call left it
Respond(id, input, call, response, out) ==
    /\ req' = [req EXCEPT !.pc = "done", !.id = id, !.input = input,
                          !.calls = Append(@, call), !.response = response]
    /\ store' = out.store
    /\ nextId' = out.nextId
    /\ lastGet' =
         IF response.variant = "Ok" /\ req.op = "GetOne"
         THEN Some(response.body.entity)
         ELSE IF /\ response.variant = "Ok" /\ req.op = "Update" /\ IsSome(lastGet)
                 /\ lastGet.Some.id = id
              THEN None
              ELSE lastGet
    /\ deleted' =
         IF response.variant = "Ok" /\ req.op = "Delete"
         THEN deleted \cup {id}
         ELSE deleted
    /\ count' = IF count.on THEN [count EXCEPT !.engineCalls = @ + 1] ELSE count
    /\ UNCHANGED parked

\* fault: create_task building a fresh CreateTaskInput that keeps only the owner
create_task_defaulting_fields ==
    /\ Routed("Task", "Create")
    /\ \E body \in CreateInput("Task") :
          LET input == [owner_id |-> member_id(req.auth), data |-> "d1"]
          IN  \E out \in EngineCreate("Task", input) :
                 Respond(NoId, body, Call("Task", "Create", NoId, input, out.result),
                   IF IsOk(out.result) THEN CreateTaskResponse_Ok(out.result.Ok)
                   ELSE Failed(out.result.Err),
                   out)

create_task ==
    /\ Routed("Task", "Create")
    /\ \E body \in CreateInput("Task") :
          LET input == [body EXCEPT !.owner_id = member_id(req.auth)]
          IN  \E out \in EngineCreate("Task", input) :
                 Respond(NoId, body, Call("Task", "Create", NoId, input, out.result),
                   IF IsOk(out.result) THEN CreateTaskResponse_Ok(out.result.Ok)
                   ELSE Failed(out.result.Err),
                   out)

\* fault: get_task declared without its PlexoAPIKeyAuthorization parameter
get_task_without_auth ==
    /\ req.pc = "received"
    /\ req.kind = "Task"
    /\ req.op = "GetOne"
    /\ \E id \in Ids :
          \E out \in EngineGetOne("Task", id) :
             Respond(id, NoInput, Call("Task", "GetOne", id, NoInput, out.result),
                   IF IsOk(out.result) THEN GetTaskResponse_Ok(out.result.Ok)
                   ELSE Failed(out.result.Err),
                   out)

get_task ==
    /\ Routed("Task", "GetOne")
    /\ \E id \in Ids :
          \E out \in EngineGetOne("Task", id) :
             Respond(id, NoInput, Call("Task", "GetOne", id, NoInput, out.result),
                   IF IsOk(out.result) THEN GetTaskResponse_Ok(out.result.Ok)
                   ELSE Failed(out.result.Err),
                   out)

\* fault: get_tasks calling the engine's get_tasks(None)
get_tasks_dropping_input ==
    /\ Routed("Task", "GetMany")
    /\ \E input \in QueryInput("Task") :
          \E out \in EngineGetTasks(None) :
             Respond(NoId, input, Call("Task", "GetMany", NoId, None, out.result),
                   IF IsOk(out.result) THEN GetTasksResponse_Ok(out.result.Ok)
                   ELSE Failed(out.result.Err),
                   out)

get_tasks ==
    /\ Routed("Task", "GetMany")
    /\ \E input \in QueryInput("Task") :
          \E out \in EngineGetTasks(Some(input)) :
             Respond(NoId, input, Call("Task", "GetMany", NoId, Some(input), out.result),
                   IF IsOk(out.result) THEN GetTasksResponse_Ok(out.result.Ok)
                   ELSE Failed(out.result.Err),
                   out)

\* fault: update_task with create_task's first line
update_task_setting_owner ==
    /\ Routed("Task", "Update")
    /\ \E id \in Ids, body \in UpdateInput("Task") :
          LET input == [body EXCEPT !.owner_id = Some(member_id(req.auth))]
          IN  \E out \in EngineUpdate("Task", id, input) :
                 Respond(id, body, Call("Task", "Update", id, input, out.result),
                   IF IsOk(out.result) THEN UpdateTaskResponse_Ok(out.result.Ok)
                   ELSE Failed(out.result.Err),
                   out)

update_task ==
    /\ Routed("Task", "Update")
    /\ \E id \in Ids, input \in UpdateInput("Task") :
          \E out \in EngineUpdate("Task", id, input) :
             Respond(id, input, Call("Task", "Update", id, input, out.result),
                   IF IsOk(out.result) THEN UpdateTaskResponse_Ok(out.result.Ok)
                   ELSE Failed(out.result.Err),
                   out)

delete_task ==
    /\ Routed("Task", "Delete")
    /\ \E id \in Ids :
          \E out \in EngineDelete("Task", id) :
             Respond(id, NoInput, Call("Task", "Delete", id, NoInput, out.result),
                   IF IsOk(out.result) THEN DeleteTaskResponse_Ok(out.result.Ok)
                   ELSE Failed(out.result.Err),
                   out)

\* fault: create_project without its first line (input.owner_id = auth.0.member_id())
create_project_trusting_input ==
    /\ Routed("Project", "Create")
    /\ \E input \in CreateInput("Project") :
          \E out \in EngineCreate("Project", input) :
             Respond(NoId, input, Call("Project", "Create", NoId, input, out.result),
                   IF IsOk(out.result) THEN CreateProjectResponse_Ok(out.result.Ok)
                   ELSE Failed(out.result.Err),
                   out)

\* fault: create_project taking the identity from a place the requests in service share
create_project_with_shared_identity ==
    /\ Routed("Project", "Create")
    /\ \E body \in CreateInput("Project") :
          LET auth == IF "member_id" \in DOMAIN parked.auth THEN parked.auth ELSE req.auth
              input == [body EXCEPT !.owner_id = member_id(auth)]
          IN  \E out \in EngineCreate("Project", input) :
                 Respond(NoId, body, Call("Project", "Create", NoId, input, out.result),
                   IF IsOk(out.result) THEN CreateProjectResponse_Ok(out.result.Ok)
                   ELSE Failed(out.result.Err),
                   out)

create_project ==
    /\ Routed("Project", "Create")
    /\ \E body \in CreateInput("Project") :
          LET input == [body EXCEPT !.owner_id = member_id(req.auth)]
          IN  \E out \in EngineCreate("Project", input) :
                 Respond(NoId, body, Call("Project", "Create", NoId, input, out.result),
                   IF IsOk(out.result) THEN CreateProjectResponse_Ok(out.result.Ok)
                   ELSE Failed(out.result.Err),
                   out)

get_project ==
    /\ Routed("Project", "GetOne")
    /\ \E id \in Ids :
          \E out \in EngineGetOne("Project", id) :
             Respond(id, NoInput, Call("Project", "GetOne", id, NoInput, out.result),
                   IF IsOk(out.result) THEN GetProjectResponse_Ok(out.result.Ok)
                   ELSE Failed(out.result.Err),
                   out)

\* the handler returns GetProjectsResponse, not Result<_>: the engine's Err is unwrapped
get_projects ==
    /\ Routed("Project", "GetMany")
    /\ \E input \in QueryInput("Project") :
          \E out \in EngineGetMany("Project", input) :
             Respond(NoId, input, Call("Project", "GetMany", NoId, input, out.result),
                   IF IsOk(out.result) THEN GetProjectsResponse_Ok(out.result.Ok)
                   ELSE Panicked(out.result.Err),
                   out)

update_project ==
    /\ Routed("Project", "Update")
    /\ \E id \in Ids, input \in UpdateInput("Project") :
          \E out \in EngineUpdate("Project", id, input) :
             Respond(id, input, Call("Project", "Update", id, input, out.result),
                   IF IsOk(out.result) THEN UpdateProjectResponse_Ok(out.result.Ok)
                   ELSE Failed(out.result.Err),
                   out)

delete_project ==
    /\ Routed("Project", "Delete")
    /\ \E id \in Ids :
          \E out \in EngineDelete("Project", id) :
             Respond(id, NoInput, Call("Project", "Delete", id, NoInput, out.result),
                   IF IsOk(out.result) THEN DeleteProjectResponse_Ok(out.result.Ok)
                   ELSE Failed(out.result.Err),
                   out)

create_member ==
    /\ Routed("Member", "Create")
    /\ \E input \in CreateInput("Member") :
          \E out \in EngineCreate("Member", input) :
             Respond(NoId, input, Call("Member", "Create", NoId, input, out.result),
                   IF IsOk(out.result) THEN CreateMemberResponse_Ok(out.result.Ok)
                   ELSE Failed(out.result.Err),
                   out)

get_member ==
    /\ Routed("Member", "GetOne")
    /\ \E id \in Ids :
          \E out \in EngineGetOne("Member", id) :
             Respond(id, NoInput, Call("Member", "GetOne", id, NoInput, out.result),
                   IF IsOk(out.result) THEN GetMemberResponse_Ok(out.result.Ok)
                   ELSE Failed(out.result.Err),
                   out)

Reversed(s) == [i \in 1..Len(s) |-> s[Len(s) + 1 - i]]

\* fault: get_members putting the newest member first
get_members_newest_first ==
    /\ Routed("Member", "GetMany")
    /\ \E input \in QueryInput("Member") :
          \E out \in EngineGetMany("Member", input) :
             Respond(NoId, input, Call("Member", "GetMany", NoId, input, out.result),
                   IF IsOk(out.result) THEN GetMembersResponse_Ok(Reversed(out.result.Ok))
                   ELSE Failed(out.result.Err),
                   out)

get_members ==
    /\ Routed("Member", "GetMany")
    /\ \E input \in QueryInput("Member") :
          \E out \in EngineGetMany("Member", input) :
             Respond(NoId, input, Call("Member", "GetMany", NoId, input, out.result),
                   IF IsOk(out.result) THEN GetMembersResponse_Ok(out.result.Ok)
                   ELSE Failed(out.result.Err),
                   out)

update_member ==
    /\ Routed("Member", "Update")
    /\ \E id \in Ids, input \in UpdateInput("Member") :
          \E out \in EngineUpdate("Member", id, input) :
             Respond(id, input, Call("Member", "Update", id, input, out.result),
                   IF IsOk(out.result) THEN UpdateMemberResponse_Ok(out.result.Ok)
                   ELSE Failed(out.result.Err),
                   out)

delete_member ==
    /\ Routed("Member", "Delete")
    /\ \E id \in Ids :
          \E out \in EngineDelete("Member", id) :
             Respond(id, NoInput, Call("Member", "Delete", id, NoInput, out.result),
                   IF IsOk(out.result) THEN DeleteMemberResponse_Ok(out.result.Ok)
                   ELSE Failed(out.result.Err),
                   out)

\* fault: create_team handing the engine a default CreateTeamInput
create_team_with_default_input ==
    /\ Routed("Team", "Create")
    /\ \E body \in CreateInput("Team") :
          LET input == [data |-> "d1"]
          IN  \E out \in EngineCreate("Team", input) :
                 Respond(NoId, body, Call("Team", "Create", NoId, input, out.result),
                   IF IsOk(out.result) THEN CreateTeamResponse_Ok(out.result.Ok)
                   ELSE Failed(out.result.Err),
                   out)

create_team ==
    /\ Routed("Team", "Create")
    /\ \E input \in CreateInput("Team") :
          \E out \in EngineCreate("Team", input) :
             Respond(NoId, input, Call("Team", "Create", NoId, input, out.result),
                   IF IsOk(out.result) THEN CreateTeamResponse_Ok(out.result.Ok)
                   ELSE Failed(out.result.Err),
                   out)

get_team ==
    /\ Routed("Team", "GetOne")
    /\ \E id \in Ids :
          \E out \in EngineGetOne("Team", id) :
             Respond(id, NoInput, Call("Team", "GetOne", id, NoInput, out.result),
                   IF IsOk(out.result) THEN GetTeamResponse_Ok(out.result.Ok)
                   ELSE Failed(out.result.Err),
                   out)

get_teams ==
    /\ Routed("Team", "GetMany")
    /\ \E input \in QueryInput("Team") :
          \E out \in EngineGetMany("Team", input) :
             Respond(NoId, input, Call("Team", "GetMany", NoId, input, out.result),
                   IF IsOk(out.result) THEN GetTeamsResponse_Ok(out.result.Ok)
                   ELSE Failed(out.result.Err),
                   out)

\* fault: update_team calling the engine's update_label
update_team_calling_update_label ==
    /\ Routed("Team", "Update")
    /\ \E id \in Ids, input \in UpdateInput("Team") :
          \E out \in EngineUpdate("Label", id, input) :
             Respond(id, input, Call("Label", "Update", id, input, out.result),
                   IF IsOk(out.result) THEN UpdateTeamResponse_Ok(out.result.Ok)
                   ELSE Failed(out.result.Err),
                   out)

update_team ==
    /\ Routed("Team", "Update")
    /\ \E id \in Ids, input \in UpdateInput("Team") :
          \E out \in EngineUpdate("Team", id, input) :
             Respond(id, input, Call("Team", "Update", id, input, out.result),
                   IF IsOk(out.result) THEN UpdateTeamResponse_Ok(out.result.Ok)
                   ELSE Failed(out.result.Err),
                   out)

delete_team ==
    /\ Routed("Team", "Delete")
    /\ \E id \in Ids :
          \E out \in EngineDelete("Team", id) :
             Respond(id, NoInput, Call("Team", "Delete", id, NoInput, out.result),
                   IF IsOk(out.result) THEN DeleteTeamResponse_Ok(out.result.Ok)
                   ELSE Failed(out.result.Err),
                   out)

create_label ==
    /\ Routed("Label", "Create")
    /\ \E input \in CreateInput("Label") :
          \E out \in EngineCreate("Label", input) :
             Respond(NoId, input, Call("Label", "Create", NoId, input, out.result),
                   IF IsOk(out.result) THEN CreateLabelResponse_Ok(out.result.Ok)
                   ELSE Failed(out.result.Err),
                   out)

\* a request answered after a second engine call
RespondRetried(id, input, first, second, response, out) ==
    /\ req' = [req EXCEPT !.pc = "done", !.id = id, !.input = input,
                          !.calls = <<first, second>>, !.response = response]
    /\ store' = out.store
    /\ nextId' = out.nextId
    /\ lastGet' = IF response.variant = "Ok" THEN Some(response.body.entity) ELSE lastGet
    /\ count' = IF count.on THEN [count EXCEPT !.engineCalls = @ + 2] ELSE count
    /\ UNCHANGED <<deleted, parked>>

\* fault: get_label calling the engine again when its first call failed
get_label_retrying ==
    /\ Routed("Label", "GetOne")
    /\ \E id \in Ids :
          \E first \in EngineGetOne("Label", id) :
             IF IsOk(first.result)
             THEN Respond(id, NoInput, Call("Label", "GetOne", id, NoInput, first.result),
                          GetLabelResponse_Ok(first.result.Ok), first)
             ELSE \E out \in EngineGetOne("Label", id) :
                     RespondRetried(id, NoInput,
                       Call("Label", "GetOne", id, NoInput, first.result),
                       Call("Label", "GetOne", id, NoInput, out.result),
                       IF IsOk(out.result) THEN GetLabelResponse_Ok(out.result.Ok)
                       ELSE Failed(out.result.Err),
                       out)

get_label ==
    /\ Routed("Label", "GetOne")
    /\ \E id \in Ids :
          \E out \in EngineGetOne("Label", id) :
             Respond(id, NoInput, Call("Label", "GetOne", id, NoInput, out.result),
                   IF IsOk(out.result) THEN GetLabelResponse_Ok(out.result.Ok)
                   ELSE Failed(out.result.Err),
                   out)

get_labels ==
    /\ Routed("Label", "GetMany")
    /\ \E input \in QueryInput("Label") :
          \E out \in EngineGetMany("Label", input) :
             Respond(NoId, input, Call("Label", "GetMany", NoId, input, out.result),
                   IF IsOk(out.result) THEN GetLabelsResponse_Ok(out.result.Ok)
                   ELSE Failed(out.result.Err),
                   out)

update_label ==
    /\ Routed("Label", "Update")
    /\ \E id \in Ids, input \in UpdateInput("Label") :
          \E out \in EngineUpdate("Label", id, input) :
             Respond(id, input, Call("Label", "Update", id, input, out.result),
                   IF IsOk(out.result) THEN UpdateLabelResponse_Ok(out.result.Ok)
                   ELSE Failed(out.result.Err),
                   out)

\* fault: delete_label calling the engine's get_label
delete_label_calling_get_label ==
    /\ Routed("Label", "Delete")
    /\ \E id \in Ids :
          \E out \in EngineGetOne("Label", id) :
             Respond(id, NoInput, Call("Label", "Delete", id, NoInput, out.result),
                   IF IsOk(out.result) THEN DeleteLabelResponse_Ok(out.result.Ok)
                   ELSE Failed(out.result.Err),
                   out)

delete_label ==
    /\ Routed("Label", "Delete")
    /\ \E id \in Ids :
          \E out \in EngineDelete("Label", id) :
             Respond(id, NoInput, Call("Label", "Delete", id, NoInput, out.result),
                   IF IsOk(out.result) THEN DeleteLabelResponse_Ok(out.result.Ok)
                   ELSE Failed(out.result.Err),
                   out)

\* the response (or the error, or the broken connection of a panic) has gone to the caller
Reply ==
    /\ req.pc = "done"
    /\ req' = Idle
    /\ lastGet' =
         IF /\ req.response.variant = "Ok" /\ req.op = "Delete" /\ IsSome(lastGet)
            /\ lastGet.Some.id = req.id
         THEN None
         ELSE lastGet
    /\ UNCHANGED <<store, nextId, deleted, parked, count>>

Next ==
    \/ Receive
    \/ Authenticate
    \/ Reply
    \/ create_task
    \/ get_task
    \/ get_tasks
    \/ update_task
    \/ delete_task
    \/ create_project
    \/ get_project
    \/ get_projects
    \/ update_project
    \/ delete_project
    \/ create_member
    \/ get_member
    \/ get_members
    \/ update_member
    \/ delete_member
    \/ create_team
    \/ get_team
    \/ get_teams
    \/ update_team
    \/ delete_team
    \/ create_label
    \/ get_label
    \/ get_labels
    \/ update_label
    \/ delete_label

Spec == Init /\ [][Next]_vars

(***************************************************************************)
(* Two requests in service at once, counted.  The handlers are async: the  *)
(* task of a request is suspended where it awaits (the extractor, the      *)
(* engine) and the task of another request runs.  req is the request whose *)
(* task runs, parked the one whose task is suspended.                      *)
(***************************************************************************)
InitConcurrent ==
    /\ store = [k \in Kinds |-> <<>>]
    /\ nextId = 1
    /\ req = Idle
    /\ lastGet = None
    /\ deleted = {}
    /\ parked = Idle
    /\ count = Counting(TRUE)

\* the running task is suspended before its response is built, the other one resumes
Switch ==
    /\ req.pc # "done"
    /\ req # parked
    /\ req' = parked
    /\ parked' = req
    /\ UNCHANGED <<store, nextId, lastGet, deleted, count>>

NextConcurrent ==
    \/ Next
    \/ Switch

SpecConcurrent == InitConcurrent /\ [][NextConcurrent]_vars

(***************************************************************************)
(* What is checked of a request that has been answered.                    *)
(***************************************************************************)
Done == req.pc = "done"
HasIdentity == "member_id" \in DOMAIN req.auth
Answered(kind, op) == Done /\ HasIdentity /\ req.kind = kind /\ req.op = op
EngineOk == req.calls # <<>> /\ IsOk(req.calls[1].result)
EngineErr == req.calls # <<>> /\ ~IsOk(req.calls[1].result)
Payload(input) == IF IsSome(input) THEN input.Some ELSE input

\* C1: on Create of a Task or a Project, whatever owner_id the caller supplied
\* (its own, another member's, none), the CreateInput the engine receives has
\* owner_id = the authenticated caller's member id, and so has the created entity.
C1_OwnerIsCaller ==
    (Done /\ HasIdentity /\ req.op = "Create" /\ req.kind \in Owned) =>
        /\ req.calls # <<>>
        /\ \A i \in DOMAIN req.calls : req.calls[i].input.owner_id = member_id(req.auth)
        /\ req.response.variant = "Ok" =>
              req.response.body.entity.owner_id = member_id(req.auth)

\* a Task created by m2 with a body that names m1 as owner
C1_Witness ==
    /\ Answered("Task", "Create")
    /\ req.input.owner_id = "m1"
    /\ member_id(req.auth) = "m2"
    /\ req.response.variant = "Ok"

\* C2: at each of the 25 routes a request whose credential is missing, malformed
\* or resolves to no member ends in Unauthorized with no engine call, and an engine
\* call is only ever made for a request whose credential resolved to an identity.
C2_NoEngineCallWithoutIdentity ==
    /\ req.calls # <<>> =>
          /\ IsOk(validate(req.key))
          /\ req.auth = validate(req.key).Ok
    /\ (Done /\ ~IsOk(validate(req.key))) =>
          /\ req.response = Unauthorized
          /\ req.calls = <<>>

\* a DELETE /labels/:id with a malformed key, answered
C2_Witness ==
    /\ Done
    /\ req.kind = "Label" /\ req.op = "Delete"
    /\ req.key = "malformed"
    /\ req.response = Unauthorized

\* C3: whenever the engine call of a request returns an error, the request ends
\* in the generic failure that wraps that error, at every one of the 25 routes.
C3_EngineFailureIsGenericFailure ==
    (Done /\ EngineErr) => req.response = Failed(req.calls[1].result.Err)

\* C4: an authenticated request to route (K, O) makes exactly one engine call,
\* and it is operation O of kind K.
C4_ExactlyOneMatchingEngineCall ==
    (Done /\ HasIdentity) =>
        /\ Len(req.calls) = 1
        /\ req.calls[1].kind = req.kind
        /\ req.calls[1].op = req.op

\* a PUT /teams/:id, answered
C4_Witness ==
    /\ Answered("Team", "Update")
    /\ Len(req.calls) = 1
    /\ req.response.variant = "Ok"

\* C5: on Create of a Member, a Team or a Label the CreateInput the engine
\* receives is the caller's, field for field, whoever the caller is.
C5_NonOwnedCreateForwardsInput ==
    (Done /\ HasIdentity /\ req.op = "Create" /\ req.kind \notin Owned) =>
        /\ req.calls # <<>>
        /\ \A i \in DOMAIN req.calls : req.calls[i].input = req.input

\* a Label created by m2 from a body other than the default one
C5_Witness ==
    /\ Answered("Label", "Create")
    /\ req.input.data = "d2"
    /\ member_id(req.auth) = "m2"
    /\ req.response.variant = "Ok"

\* C6: a successful Delete carries the entity as the latest GetOne of it returned
\* it (no Update of it in between), and a GetOne of a deleted id does not succeed.
C6_DeleteEchoesPriorState ==
    /\ (/\ Done /\ req.op = "Delete" /\ req.response.variant = "Ok"
        /\ IsSome(lastGet) /\ lastGet.Some.id = req.id) =>
          req.response.body = [entity |-> lastGet.Some]
    /\ (Done /\ req.op = "GetOne" /\ req.id \in deleted) =>
          req.response.variant # "Ok"

\* an entity fetched, then deleted, while another entity has already been deleted
C6_Witness ==
    /\ Done /\ req.op = "Delete" /\ req.response.variant = "Ok"
    /\ IsSome(lastGet) /\ lastGet.Some.id = req.id
    /\ lastGet.Some.data = "d2"
    /\ deleted # {req.id}

\* C7: when the engine's list operation succeeds with sequence S, GetMany answers
\* with its success variant, status 200, carrying exactly S in the engine's order;
\* an empty S is answered the same way.
C7_GetManyReturnsEngineSequence ==
    (Done /\ req.op = "GetMany" /\ EngineOk) =>
        /\ req.response.variant = "Ok"
        /\ req.response.status = 200
        /\ req.response.body = [list |-> req.calls[1].result.Ok]

\* a list of two different entities, answered in the engine's order
C7_Witness ==
    /\ Done /\ req.op = "GetMany" /\ EngineOk
    /\ Len(req.calls[1].result.Ok) = 2
    /\ req.calls[1].result.Ok[1].data # req.calls[1].result.Ok[2].data
    /\ req.response.variant = "Ok"

\* C8 as stated: for every kind, GetMany hands the engine the caller's QueryInput
\* in the same bare form (not rewritten, wrapped, defaulted or dropped).
C8_QueryForwardedInSameForm ==
    (Done /\ HasIdentity /\ req.op = "GetMany") =>
        /\ req.calls # <<>>
        /\ \A i \in DOMAIN req.calls : req.calls[i].input = req.input

\* C8 as amended: the engine receives the caller's QueryInput unmodified; get_tasks
\* hands it over as Some(input), the other four list handlers hand it over bare.
C8_QueryForwardedUnmodified ==
    (Done /\ HasIdentity /\ req.op = "GetMany") =>
        /\ req.calls # <<>>
        /\ \A i \in DOMAIN req.calls :
              req.calls[i].input =
                 IF req.kind = "Task" THEN Some(req.input) ELSE req.input

\* a GET /tasks with a filter other than the default one
C8_Witness ==
    /\ Answered("Task", "GetMany")
    /\ req.input.filter = "d1"
    /\ req.calls # <<>>

\* C9: whenever the engine call succeeds the response is the success variant,
\* status 200, carrying the engine's result: one entity, or the list for GetMany.
C9_SuccessIs200WithResult ==
    (Done /\ EngineOk) =>
        /\ req.response.variant = "Ok"
        /\ req.response.status = 200
        /\ req.response.body =
              IF req.op = "GetMany"
              THEN [list |-> req.calls[1].result.Ok]
              ELSE [entity |-> req.calls[1].result.Ok]

\* a Member created: status 200, not 201
C9_Witness ==
    /\ Answered("Member", "Create")
    /\ EngineOk
    /\ req.response.status = 200

\* C10: for Task and Project, GetOne, GetMany, Update and Delete hand the engine
\* the id and the input the caller supplied, whoever the caller is: no owner field
\* is set by the gateway outside Create.
C10_OnlyCreateRewritesOwner ==
    (Done /\ HasIdentity /\ req.kind \in Owned /\ req.op # "Create") =>
        /\ req.calls # <<>>
        /\ \A i \in DOMAIN req.calls :
              /\ req.calls[i].id = req.id
              /\ Payload(req.calls[i].input) = req.input

\* an Update of a Task by a member who is not its owner, naming no owner
C10_Witness ==
    /\ Answered("Task", "Update")
    /\ req.input.owner_id = None
    /\ req.response.variant = "Ok"
    /\ req.response.body.entity.owner_id # member_id(req.auth)

\* C13: on Create of a Task or a Project, owner_id is the only field the gateway
\* changes: every other field of the CreateInput the engine receives is the
\* caller's, for every input and every identity.
C13_OnlyOwnerIsRewritten ==
    (Done /\ HasIdentity /\ req.op = "Create" /\ req.kind \in Owned) =>
        /\ req.calls # <<>>
        /\ \A i \in DOMAIN req.calls :
              /\ DOMAIN req.calls[i].input = DOMAIN req.input
              /\ \A f \in DOMAIN req.input \ {"owner_id"} :
                    req.calls[i].input[f] = req.input[f]

\* a Task created from a body with fields other than the default ones and no owner
C13_Witness ==
    /\ Answered("Task", "Create")
    /\ req.input.data = "d2"
    /\ req.input.owner_id = Nil
    /\ req.calls # <<>>
    /\ req.calls[1].input.owner_id # Nil
    /\ req.response.variant = "Ok"

InService == {req, parked}
Running(pc) == (IF req.pc = pc THEN 1 ELSE 0) + (IF parked.pc = pc THEN 1 ELSE 0)

\* C11: the gateway is a single-attempt pass-through: over any sequence of
\* authenticated requests the engine calls made are as many as the requests whose
\* handler has run; a failed engine call is not followed by a second one, and a
\* request identical to an earlier one gets an engine call of its own.
C11_OneEngineCallPerRequest ==
    count.on =>
        /\ count.engineCalls + Running("authorized") = count.requests
        /\ (Done /\ EngineErr) => Len(req.calls) = 1

\* two POST /labels with the same body, answered: two engine calls, two labels
C11_Witness ==
    /\ count.on
    /\ Answered("Label", "Create")
    /\ count.requests = 2
    /\ count.engineCalls = 2
    /\ Len(store["Label"]) = 2
    /\ store["Label"][1].data = store["Label"][2].data

\* C12: with requests of different callers in service at once, each request has
\* the identity of its own key and hands the engine its own id and input: a Create
\* of a Task or Project by m2 is dispatched with owner_id = m2 while a request of
\* m1 is in service.
C12_RequestsAreIsolated ==
    /\ \A r \in InService :
          "member_id" \in DOMAIN r.auth =>
              /\ IsOk(validate(r.key))
              /\ r.auth = validate(r.key).Ok
    /\ (Done /\ HasIdentity) =>
          /\ req.calls # <<>>
          /\ \A i \in DOMAIN req.calls :
                /\ req.calls[i].id = req.id
                /\ IF req.op = "Create" /\ req.kind \in Owned
                   THEN req.calls[i].input =
                           [req.input EXCEPT !.owner_id = validate(req.key).Ok.member_id]
                   ELSE Payload(req.calls[i].input) = req.input

\* m2 creates a Project, naming m1 as owner, while an authenticated request of m1 is suspended
C12_Witness ==
    /\ Answered("Project", "Create")
    /\ req.key = "key-m2"
    /\ req.input.owner_id = "m1"
    /\ parked.pc = "authorized"
    /\ parked.key = "key-m1"
    /\ req.response.variant = "Ok"
    /\ req.response.body.entity.owner_id = "m2"

=============================================================================
